---- MODULE Spec2Model ----
(***************************************************************************)
(* A model of pongo2's dynamic value wrapper (value.go): the Value type,   *)
(* its kind predicates, coercions, truthiness, negation, equality,         *)
(* containment, indexing, slicing, the iteration protocol and the          *)
(* comparator shared by sortedKeys and valuesList.                         *)
(*                                                                         *)
(* A reflect.Value is a record                                             *)
(*   t     the Go type's name            k     its reflect.Kind            *)
(*   n     the number held (booleans: 0/1; floats: tenths; times: seconds) *)
(*   nan   a float that is NaN           s     a text's code points        *)
(*   items the elements of a slice or array, the keys of a map, the target *)
(*         of a pointer or the dynamic value of an interface element       *)
(*   vals  the values of a map, parallel to items; for a slice, the        *)
(*         elements of its backing array between its length and capacity   *)
(*   kt    a map's key type; an array's element type                       *)
(* Texts are sequences of Unicode code points; floats are the exact        *)
(* decimals n/10; the machine word is IntBits wide.                        *)
(***************************************************************************)
EXTENDS Integers, Sequences, FiniteSets, TLC

VARIABLES val, safe, other, third, call, ret, visits, empties

vars == <<val, safe, other, third, call, ret, visits, empties>>

\* Longest container (slice, map, text) that is modelled.
MaxLen == 3
\* Width of the machine word (int, uint) in the model, standing for 64.
IntBits == 3

RECURSIVE Pow2(_)
Pow2(e) == IF e = 0 THEN 1 ELSE 2 * Pow2(e - 1)
MaxInt == Pow2(IntBits - 1) - 1
MinInt == -Pow2(IntBits - 1)
MaxUint == Pow2(IntBits) - 1

(***************************************************************************)
(* Values of the host language.                                            *)
(***************************************************************************)
Raw(t, k) == [t |-> t, k |-> k, n |-> 0, nan |-> FALSE, s |-> <<>>,
              items |-> <<>>, vals |-> <<>>, kt |-> ""]

Invalid == Raw("", "invalid")
BoolV(b) == [Raw("bool", "bool") EXCEPT !.n = IF b THEN 1 ELSE 0]
IntV(n) == [Raw("int", "int") EXCEPT !.n = n]
Int64V(n) == [Raw("int64", "int64") EXCEPT !.n = n]
UintV(n) == [Raw("uint", "uint") EXCEPT !.n = n]
FloatV(tenths) == [Raw("float64", "float64") EXCEPT !.n = tenths]
NaNV == [Raw("float64", "float64") EXCEPT !.nan = TRUE]
TextV(s) == [Raw("string", "string") EXCEPT !.s = s]
TimeV(sec) == [Raw("time.Time", "struct") EXCEPT !.n = sec]
RecordV == Raw("main.T", "struct")
ComplexV == Raw("complex128", "complex128")
SliceV(et, items) == [Raw("[]" \o et, "slice") EXCEPT !.items = items]
\* A slice whose backing array holds spare beyond the slice's length.
SliceCapV(et, items, spare) == [SliceV(et, items) EXCEPT !.vals = spare]
\* An array [n]et, passed by value.
ArrayV(et, items) ==
    [Raw("[" \o ToString(Len(items)) \o "]" \o et, "array") EXCEPT !.items = items, !.kt = et]
MapV(kt, keys, vals) ==
    [Raw("map[" \o kt \o "]int", "map") EXCEPT !.items = keys, !.vals = vals, !.kt = kt]
\* A pointer is its address (n, never 0) and the value it points to.
PtrV(addr, x) == [Raw("*" \o x.t, "ptr") EXCEPT !.n = addr, !.items = <<x>>]
NilPtrV(t) == Raw("*" \o t, "ptr")
IfaceV(x) == [Raw("interface {}", "interface") EXCEPT !.items = <<x>>]

(***************************************************************************)
(* Text helpers: Go compares strings byte-wise, which for UTF-8 is the     *)
(* order of the code point sequences.                                      *)
(***************************************************************************)
StrLess(a, b) ==
    \E i \in 1..Len(b) :
        /\ \A j \in 1..(i - 1) : j <= Len(a) /\ a[j] = b[j]
        /\ (i > Len(a) \/ a[i] < b[i])

RECURSIVE Digits(_)
Digits(n) == IF n < 10 THEN <<48 + n>> ELSE Digits(n \div 10) \o <<48 + (n % 10)>>

\* strconv.FormatInt(n, 10)
FormatInt(n) == IF n < 0 THEN <<45>> \o Digits(-n) ELSE Digits(n)
\* strconv.FormatUint(n, 10)
FormatUint(n) == Digits(n)
\* fmt.Sprintf("%f", f) of the float tenths/10, or of NaN
FormatFloat(v) ==
    IF v.nan THEN <<78, 97, 78>>
    ELSE LET a == IF v.n < 0 THEN -v.n ELSE v.n
         IN (IF v.n < 0 THEN <<45>> ELSE <<>>) \o Digits(a \div 10) \o <<46>>
            \o <<48 + (a % 10)>> \o <<48, 48, 48, 48, 48>>
\* time.Time.String() of time.Unix(sec, 0).UTC(), 0 <= sec <= 9
FormatTime(sec) ==
    <<49, 57, 55, 48, 45, 48, 49, 45, 48, 49, 32, 48, 48, 58, 48, 48, 58, 48>>
    \o <<48 + sec>> \o <<32, 43, 48, 48, 48, 48, 32, 85, 84, 67>>
\* reflect.Type.String() of the types of the model.
RECURSIVE TypeName(_)
TypeName(t) ==
    CASE t = "bool" -> <<98, 111, 111, 108>>
      [] t = "int" -> <<105, 110, 116>>
      [] t = "int64" -> <<105, 110, 116, 54, 52>>
      [] t = "uint" -> <<117, 105, 110, 116>>
      [] t = "float64" -> <<102, 108, 111, 97, 116, 54, 52>>
      [] t = "string" -> <<115, 116, 114, 105, 110, 103>>
      [] t = "complex128" -> <<99, 111, 109, 112, 108, 101, 120, 49, 50, 56>>
      [] t = "time.Time" -> <<116, 105, 109, 101, 46, 84, 105, 109, 101>>
      [] t = "main.T" -> <<109, 97, 105, 110, 46, 84>>
      [] t = "interface {}" -> <<105, 110, 116, 101, 114, 102, 97, 99, 101, 32, 123, 125>>
      [] t = "[]int" -> <<91, 93>> \o TypeName("int")
      [] t = "[]string" -> <<91, 93>> \o TypeName("string")
      [] t = "[]float64" -> <<91, 93>> \o TypeName("float64")
      [] t = "[]uint" -> <<91, 93>> \o TypeName("uint")
      [] t = "[]*int" -> <<91, 93>> \o TypeName("*int")
      [] t = "[]interface {}" -> <<91, 93>> \o TypeName("interface {}")
      [] t = "map[int]int" -> <<109, 97, 112, 91>> \o TypeName("int") \o <<93, 105, 110, 116>>
      [] t = "map[int64]int" -> <<109, 97, 112, 91>> \o TypeName("int64") \o <<93, 105, 110, 116>>
      [] t = "map[string]int" -> <<109, 97, 112, 91>> \o TypeName("string") \o <<93, 105, 110, 116>>
      [] t = "map[float64]int" -> <<109, 97, 112, 91>> \o TypeName("float64") \o <<93, 105, 110, 116>>
      [] t = "map[bool]int" -> <<109, 97, 112, 91>> \o TypeName("bool") \o <<93, 105, 110, 116>>
      [] t = "map[interface {}]int" -> <<109, 97, 112, 91>> \o TypeName("interface {}") \o <<93, 105, 110, 116>>
      [] t = "map[*int]int" -> <<109, 97, 112, 91>> \o TypeName("*int") \o <<93, 105, 110, 116>>
      [] t = "*int" -> <<42>> \o TypeName("int")
      [] t = "**int" -> <<42>> \o TypeName("*int")
      [] t = "*time.Time" -> <<42>> \o TypeName("time.Time")
      [] t = "*string" -> <<42>> \o TypeName("string")
      [] t = "*[]int" -> <<42>> \o TypeName("[]int")
      [] t = "*map[int]int" -> <<42>> \o TypeName("map[int]int")

\* reflect.Value.String() of a value that is not a string: "<T Value>", and
\* "<invalid Value>" of the zero Value.
ReflectString(v) ==
    CASE v.k = "string" -> v.s
      [] v.k = "invalid" -> <<60, 105, 110, 118, 97, 108, 105, 100, 32, 86, 97, 108, 117, 101, 62>>
      [] v.k = "array" ->
           <<60, 91>> \o Digits(Len(v.items)) \o <<93>> \o TypeName(v.kt) \o <<32, 86, 97, 108, 117, 101, 62>>
      [] OTHER -> <<60>> \o TypeName(v.t) \o <<32, 86, 97, 108, 117, 101, 62>>

\* strconv.ParseFloat(s, 64) on texts over the modelled alphabet (letters and
\* the digit 1): a text of decimal digits parses to its number, in tenths;
\* every other text is a syntax error.
RECURSIVE ParseDigits(_)
ParseDigits(s) ==
    IF s = <<>> THEN 0
    ELSE 10 * ParseDigits(SubSeq(s, 1, Len(s) - 1)) + (s[Len(s)] - 48)
ParseFloat(s) ==
    IF s /= <<>> /\ \A i \in 1..Len(s) : s[i] >= 48 /\ s[i] <= 57
    THEN [ok |-> TRUE, tenths |-> 10 * ParseDigits(s)]
    ELSE [ok |-> FALSE, tenths |-> 0]

(***************************************************************************)
(* Numeric helpers.                                                        *)
(***************************************************************************)
\* int(u) of an unsigned word: the same bits read as a signed word
UintToInt(u) == IF u > MaxInt THEN u - (MaxUint + 1) ELSE u
\* int(f): truncation toward zero; int(NaN) is the smallest word on amd64
FloatToInt(v) ==
    IF v.nan THEN MinInt
    ELSE IF v.n < 0 THEN -((-v.n) \div 10) ELSE v.n \div 10

IntKinds == {"int", "int64"}
UintKinds == {"uint"}
FloatKinds == {"float64"}
ContainerKinds == {"array", "chan", "map", "slice", "string"}

(***************************************************************************)
(* Value: the wrapped reflect.Value and the safe marker.                   *)
(***************************************************************************)
Value(x, sf) == [val |-> x, safe |-> sf]

AsValue(x) == Value(x, FALSE)

AsSafeValue(x) == Value(x, TRUE)

\* The outcome of a call that can fault (a Go panic): the result, or a panic.
Returned(x) == [panics |-> FALSE, result |-> x]
Panic == [panics |-> TRUE, result |-> FALSE]

\* reflect.Value.Elem of a pointer: the target, or the zero Value of a nil one.
Elem(x) == IF x.items = <<>> THEN Invalid ELSE x.items[1]

getResolvedValue(v) ==
    IF v.val.k /= "invalid" /\ v.val.k = "ptr" THEN Elem(v.val) ELSE v.val

\* reflect.Value.Interface: the dynamic value; an interface-typed element
\* yields the value it holds.
Interface(v) ==
    IF v.val.k /= "invalid"
    THEN (IF v.val.k = "interface" THEN v.val.items[1] ELSE v.val)
    ELSE Invalid

IsString(v) == getResolvedValue(v).k = "string"

IsBool(v) == getResolvedValue(v).k = "bool"

IsFloat(v) == getResolvedValue(v).k \in FloatKinds

IsInteger(v) == getResolvedValue(v).k \in IntKinds \cup UintKinds

IsNumber(v) == IsInteger(v) \/ IsFloat(v)

IsTime(v) == Interface(v).t = "time.Time"

IsNil(v) == getResolvedValue(v).k = "invalid"

\* The types whose method set holds String(): time.Time and *time.Time.
IsStringer(x) == x.t \in {"time.Time", "*time.Time"}

StringerString(x) == IF x.k = "ptr" THEN FormatTime(Elem(x).n) ELSE FormatTime(x.n)

Bool(v) ==
    LET r == getResolvedValue(v)
    IN IF r.k = "bool" THEN r.n = 1 ELSE FALSE

String(v) ==
    LET r == getResolvedValue(v)
    IN IF IsNil(v) THEN <<>>
       ELSE IF IsStringer(Interface(v)) THEN StringerString(Interface(v))
       ELSE CASE r.k = "string" -> r.s
              [] r.k \in IntKinds -> FormatInt(r.n)
              [] r.k \in UintKinds -> FormatUint(r.n)
              [] r.k \in FloatKinds -> FormatFloat(r)
              [] r.k = "bool" -> IF Bool(v) THEN <<84, 114, 117, 101>>
                                 ELSE <<70, 97, 108, 115, 101>>
              [] OTHER -> ReflectString(r)

Integer(v) ==
    LET r == getResolvedValue(v)
    IN CASE r.k \in IntKinds -> r.n
         [] r.k \in UintKinds -> UintToInt(r.n)
         [] r.k \in FloatKinds -> FloatToInt(r)
         [] r.k = "string" ->
              LET f == ParseFloat(r.s)
              IN IF ~f.ok THEN 0 ELSE FloatToInt(FloatV(f.tenths))
         [] OTHER -> 0

\* Float returns a float64, here as a float64 reflect value (tenths, or NaN).
Float(v) ==
    LET r == getResolvedValue(v)
    IN CASE r.k \in IntKinds -> FloatV(10 * r.n)
         [] r.k \in UintKinds -> FloatV(10 * r.n)
         [] r.k \in FloatKinds -> r
         [] r.k = "string" ->
              LET f == ParseFloat(r.s)
              IN IF ~f.ok THEN FloatV(0) ELSE FloatV(f.tenths)
         [] OTHER -> FloatV(0)

\* The zero time.Time, and a time.Time at sec seconds of the epoch.
TimeOf(x) == [zero |-> FALSE, sec |-> x.n]
ZeroTime == [zero |-> TRUE, sec |-> 0]

Time(v) == IF Interface(v).t = "time.Time" THEN TimeOf(Interface(v)) ELSE ZeroTime

\* f != 0 for a float64 (NaN != 0 holds)
FloatNonZero(f) == f.nan \/ f.n /= 0

IsTrue(v) ==
    LET r == getResolvedValue(v)
    IN CASE r.k \in IntKinds -> r.n /= 0
         [] r.k \in UintKinds -> r.n /= 0
         [] r.k \in FloatKinds -> FloatNonZero(r)
         [] r.k \in ContainerKinds -> (IF r.k = "string" THEN Len(r.s) ELSE Len(r.items)) > 0
         [] r.k = "bool" -> r.n = 1
         [] r.k = "struct" -> TRUE
         [] OTHER -> FALSE

\* Negate with the float branch answering 0.0 for zero as well.
NegateFloatAlwaysZero(v) ==
    LET r == getResolvedValue(v)
    IN CASE r.k \in IntKinds \cup UintKinds ->
              IF Integer(v) /= 0 THEN AsValue(IntV(0)) ELSE AsValue(IntV(1))
         [] r.k \in FloatKinds -> AsValue(FloatV(0))
         [] r.k \in ContainerKinds ->
              AsValue(BoolV((IF r.k = "string" THEN Len(r.s) ELSE Len(r.items)) = 0))
         [] r.k = "bool" -> AsValue(BoolV(~(r.n = 1)))
         [] r.k = "struct" -> AsValue(BoolV(FALSE))
         [] OTHER -> AsValue(BoolV(TRUE))

Negate(v) ==
    LET r == getResolvedValue(v)
    IN CASE r.k \in IntKinds \cup UintKinds ->
              IF Integer(v) /= 0 THEN AsValue(IntV(0)) ELSE AsValue(IntV(1))
         [] r.k \in FloatKinds ->
              IF FloatNonZero(Float(v)) THEN AsValue(FloatV(0)) ELSE AsValue(FloatV(11))
         [] r.k \in ContainerKinds ->
              AsValue(BoolV((IF r.k = "string" THEN Len(r.s) ELSE Len(r.items)) = 0))
         [] r.k = "bool" -> AsValue(BoolV(~(r.n = 1)))
         [] r.k = "struct" -> AsValue(BoolV(FALSE))
         [] OTHER -> AsValue(BoolV(TRUE))

ValueLen(v) ==
    LET r == getResolvedValue(v)
    IN CASE r.k \in {"array", "chan", "map", "slice"} -> Len(r.items)
         [] r.k = "string" -> Len(r.s)
         [] OTHER -> 0

\* reflect.ValueOf(item.Interface()) of an element
Boxed(e) == IF e.k = "interface" THEN e.items[1] ELSE e

\* The allocator's size classes up to 128 bytes, and the size it hands out
\* for a request of size bytes.
SizeClasses == {0, 8, 16, 24, 32, 48, 64, 80, 96, 112, 128}
roundupsize(size) ==
    CHOOSE c \in SizeClasses : c >= size /\ \A d \in SizeClasses : d >= size => c <= d
\* The runes of the buffer the runtime lends a conversion that does not escape.
tmpStringBufSize == 32
\* cap([]rune(s)) of a text of n code points: the lent buffer, or the
\* allocation rounded up to its size class; which one is the build's choice.
RuneCaps(n) ==
    {roundupsize(4 * n) \div 4} \cup (IF n <= tmpStringBufSize THEN {tmpStringBufSize} ELSE {})

\* n zero elements
Zeros(n) == [i \in 1..n |-> 0]

\* Slice(i, j), where the conversion []rune(s) of a text yields the capacity
\* runeCap.  Go bounds s[i:j] by the capacity, not by the length: a text is
\* followed by zero runes up to the capacity, a slice by the spare elements
\* of its backing array.  reflect slices an array only when it is
\* addressable, that is when it was reached through a pointer.
Slice(v, i, j, runeCap) ==
    LET r == getResolvedValue(v)
    IN CASE r.k = "slice" ->
              LET backing == r.items \o r.vals
              IN IF i < 0 \/ j < i \/ j > Len(backing) THEN Panic
                 ELSE Returned(AsValue([r EXCEPT !.items = SubSeq(backing, i + 1, j),
                                                 !.vals = SubSeq(backing, j + 1, Len(backing))]))
         [] r.k = "array" ->
              IF v.val.k /= "ptr" \/ i < 0 \/ j < i \/ j > Len(r.items) THEN Panic
              ELSE Returned(AsValue(SliceCapV(r.kt, SubSeq(r.items, i + 1, j),
                                             SubSeq(r.items, j + 1, Len(r.items)))))
         [] r.k = "string" ->
              LET runes == r.s \o Zeros(runeCap - Len(r.s))
              IN IF i < 0 \/ j < i \/ j > runeCap THEN Panic
                 ELSE Returned(AsValue(TextV(SubSeq(runes, i + 1, j))))
         [] OTHER -> Returned(AsValue(SliceV("int", <<>>)))

Index(v, i) ==
    LET r == getResolvedValue(v)
    IN CASE r.k \in {"array", "slice"} ->
              IF i >= ValueLen(v) THEN Returned(AsValue(Invalid))
              ELSE IF i < 0 THEN Panic
              ELSE Returned(AsValue(Boxed(r.items[i + 1])))
         [] r.k = "string" ->
              IF i < Len(r.s)
              THEN (IF i < 0 THEN Panic ELSE Returned(AsValue(TextV(<<r.s[i + 1]>>))))
              ELSE Returned(AsValue(TextV(<<>>)))
         [] OTHER -> Returned(AsValue(SliceV("int", <<>>)))

CanSlice(v) == getResolvedValue(v).k \in {"array", "slice", "string"}

\* float64(v.Integer()) for the integer family, v.Float() otherwise
castToFloat64(v) == IF IsInteger(v) THEN FloatV(10 * Integer(v)) ELSE Float(v)

\* a - b < epsilon for float64 a, b: false when either is NaN; the modelled
\* floats are whole tenths, so a - b < 1e-9 exactly when a - b <= 0.
DiffBelowEpsilon(a, b) == ~a.nan /\ ~b.nan /\ a.n - b.n <= 0

\* reflect.Type.Comparable
Comparable(x) == x.k \notin {"slice", "map", "func"}

\* a == b for two interface values: the same dynamic type and equal values
InterfaceEq(a, b) == a.t = b.t /\ a = b /\ ~a.nan

EqualValueTo(v, o) ==
    IF IsNumber(v) /\ IsNumber(o)
    THEN LET v1 == castToFloat64(v)
             v2 == castToFloat64(o)
         IN DiffBelowEpsilon(v1, v2) /\ DiffBelowEpsilon(v2, v1)
    ELSE IF IsTime(v) /\ IsTime(o) THEN Time(v) = Time(o)
    ELSE IF v.val.k = "invalid" \/ o.val.k = "invalid" THEN FALSE
    ELSE /\ Comparable(v.val) /\ Comparable(o.val)
         /\ InterfaceEq(Interface(v), Interface(o))

(***************************************************************************)
(* Containment.                                                            *)
(***************************************************************************)
\* The field names of the modelled record types: main.T has the one field
\* "a"; time.Time has wall, ext and loc.
StructFields(t) ==
    IF t = "main.T" THEN {<<97>>}
    ELSE IF t = "time.Time" THEN {<<119, 97, 108, 108>>, <<101, 120, 116>>, <<108, 111, 99>>}
    ELSE {}

\* strings.Contains(s, sub)
StringsContains(s, sub) ==
    \E i \in 1..(Len(s) + 1) :
        i + Len(sub) - 1 <= Len(s) /\ SubSeq(s, i, i + Len(sub) - 1) = sub

\* reflect.Value.MapIndex(key).IsValid(), which panics when the key's type is
\* not the map's key type.
MapIndexIsValid(m, key) ==
    IF key.t /= m.kt THEN Panic
    ELSE Returned(\E i \in 1..Len(m.items) : m.items[i] = key)

\* reflect.Value.MapIndex(key) of a key the map holds
MapIndex(m, key) == m.vals[CHOOSE i \in 1..Len(m.items) : m.items[i] = key]

\* Contains without the check of the key's type against the map's key type.
ContainsUncheckedKeyType(v, o) ==
    LET baseValue == getResolvedValue(v)
    IN CASE baseValue.k = "struct" ->
              Returned(String(o) \in StructFields(baseValue.t))
         [] baseValue.k = "map" ->
              IF o.val.k = "invalid" THEN Returned(FALSE)
              ELSE IF Interface(o).t = "int"
                   THEN MapIndexIsValid(baseValue, getResolvedValue(o))
              ELSE IF Interface(o).t = "string"
                   THEN MapIndexIsValid(baseValue, getResolvedValue(o))
              ELSE Returned(FALSE)
         [] baseValue.k = "string" ->
              Returned(StringsContains(baseValue.s, String(o)))
         [] baseValue.k \in {"slice", "array"} ->
              Returned(\E i \in 1..Len(baseValue.items) :
                           EqualValueTo(o, AsValue(Boxed(baseValue.items[i]))))
         [] OTHER -> Returned(FALSE)

Contains(v, o) ==
    LET baseValue == getResolvedValue(v)
    IN CASE baseValue.k = "struct" ->
              Returned(String(o) \in StructFields(baseValue.t))
         [] baseValue.k = "map" ->
              IF o.val.k = "invalid" THEN Returned(FALSE)
              ELSE IF baseValue.kt /= o.val.t THEN Returned(FALSE)
              ELSE IF Interface(o).t = "int"
                   THEN MapIndexIsValid(baseValue, getResolvedValue(o))
              ELSE IF Interface(o).t = "string"
                   THEN MapIndexIsValid(baseValue, getResolvedValue(o))
              ELSE Returned(FALSE)
         [] baseValue.k = "string" ->
              Returned(StringsContains(baseValue.s, String(o)))
         [] baseValue.k \in {"slice", "array"} ->
              Returned(\E i \in 1..Len(baseValue.items) :
                           EqualValueTo(o, AsValue(Boxed(baseValue.items[i]))))
         [] OTHER -> Returned(FALSE)

(***************************************************************************)
(* The comparator shared by sortedKeys and valuesList, and sorting.        *)
(***************************************************************************)
\* a < b for float64 a, b: false when either is NaN
FloatLess(a, b) == ~a.nan /\ ~b.nan /\ a.n < b.n

\* sortedKeys.Less(i, j), on a slice of reflect.Values (indices from 0)
sortedKeysLess(sk, i, j) ==
    LET vi == Value(sk[i + 1], FALSE)
        vj == Value(sk[j + 1], FALSE)
    IN IF IsInteger(vi) /\ IsInteger(vj) THEN Integer(vi) < Integer(vj)
       ELSE IF IsFloat(vi) /\ IsFloat(vj) THEN FloatLess(Float(vi), Float(vj))
       ELSE StrLess(String(vi), String(vj))

\* valuesList.Less(i, j), on a slice of *Value (indices from 0)
valuesListLess(vl, i, j) ==
    LET vi == vl[i + 1]
        vj == vl[j + 1]
    IN IF IsInteger(vi) /\ IsInteger(vj) THEN Integer(vi) < Integer(vj)
       ELSE IF IsFloat(vi) /\ IsFloat(vj) THEN FloatLess(Float(vi), Float(vj))
       ELSE StrLess(String(vi), String(vj))

\* Less of the sort.Interface being sorted, on two of its elements:
\* sortedKeys.Less ("keys"), valuesList.Less ("values") or the rune
\* comparison of the text branch ("runes").
ElemLess(kind, x, y) ==
    CASE kind = "keys" -> sortedKeysLess(<<x, y>>, 0, 1)
      [] kind = "values" -> valuesListLess(<<x, y>>, 0, 1)
      [] OTHER -> x < y

\* The sort.Interface handed to the sort: the data come with their Less, a
\* relation on the elements held; sort.Reverse(data).Less(i, j) is
\* data.Less(j, i).
LessOf(data, kind, rev) ==
    LET elems == {data[i] : i \in 1..Len(data)}
    IN [p \in elems \X elems |->
           IF rev THEN ElemLess(kind, p[2], p[1]) ELSE ElemLess(kind, p[1], p[2])]

\* data.Less(i, j) (indices from 0)
DataLess(data, less, i, j) == less[<<data[i + 1], data[j + 1]>>]

\* Swap(i, j) (indices from 0)
Swap(data, i, j) == [data EXCEPT ![i + 1] = data[j + 1], ![j + 1] = data[i + 1]]

(***************************************************************************)
(* sort.Sort of the standard library (Go 1.19 and later): pattern-defeating *)
(* quicksort over data[a:b], indices from 0, every comparison and exchange *)
(* going through data.Less and data.Swap.  The library's constants:        *)
(***************************************************************************)
\* pdqsort: ranges up to this length are sorted by insertion
maxInsertion == 12
\* choosePivot: ranges from this length use the Tukey ninther
shortestNinther == 50
\* choosePivot: this many swaps mean the range is in decreasing order
maxSwaps == 12
\* partialInsertionSort: the out-of-order pairs that get shifted at most
maxSteps == 5
\* partialInsertionSort: shorter ranges are not shifted
shortestShifting == 50

\* The inner loop of insertionSort:
\*   for j := i; j > a && data.Less(j, j-1); j-- { data.Swap(j, j-1) }
RECURSIVE InsertDown(_, _, _, _)
InsertDown(data, less, a, j) ==
    IF j > a /\ DataLess(data, less, j, j - 1)
    THEN InsertDown(Swap(data, j, j - 1), less, a, j - 1)
    ELSE data

\* The outer loop of insertionSort: for i := a + 1; i < b; i++, with b
\* within the data.
RECURSIVE insertionSortLoop(_, _, _, _, _)
insertionSortLoop(data, less, a, b, i) ==
    IF i < b /\ b <= Len(data)
    THEN insertionSortLoop(InsertDown(data, less, a, i), less, a, b, i + 1)
    ELSE data

insertionSort(data, less, a, b) == insertionSortLoop(data, less, a, b, a + 1)

\* siftDown(data, lo, hi, first), lo being the root the loop starts from
RECURSIVE siftDown(_, _, _, _, _)
siftDown(data, less, lo, hi, first) ==
    LET left == 2 * lo + 1
        child == IF left + 1 < hi /\ DataLess(data, less, first + left, first + left + 1)
                 THEN left + 1 ELSE left
    IN IF left >= hi THEN data
       ELSE IF ~DataLess(data, less, first + lo, first + child) THEN data
       ELSE siftDown(Swap(data, first + lo, first + child), less, child, hi, first)

\* heapSort: for i := (hi - 1) / 2; i >= 0; i-- { siftDown(data, i, hi, first) },
\* with the heap within the data.
RECURSIVE heapBuild(_, _, _, _, _)
heapBuild(data, less, i, hi, first) ==
    IF i >= 0 /\ first + hi <= Len(data)
    THEN heapBuild(siftDown(data, less, i, hi, first), less, i - 1, hi, first)
    ELSE data

\* heapSort: for i := hi - 1; i >= 0; i-- { Swap(first, first+i); siftDown(data, lo, i, first) },
\* with the heap within the data.
RECURSIVE heapPop(_, _, _, _)
heapPop(data, less, i, first) ==
    IF i >= 0 /\ first + i < Len(data)
    THEN heapPop(siftDown(Swap(data, first, first + i), less, 0, i, first),
                 less, i - 1, first)
    ELSE data

heapSort(data, less, a, b) ==
    heapPop(heapBuild(data, less, (b - a - 1) \div 2, b - a, a), less, b - a - 1, a)

\* order2: the two indices in order, and the count of swaps
order2(data, less, a, b, swaps) ==
    IF DataLess(data, less, b, a)
    THEN [x |-> b, y |-> a, swaps |-> swaps + 1]
    ELSE [x |-> a, y |-> b, swaps |-> swaps]

\* median: the index of the median of data[a], data[b], data[c]
median(data, less, a, b, c, swaps) ==
    LET o1 == order2(data, less, a, b, swaps)
        o2 == order2(data, less, o1.y, c, o1.swaps)
        o3 == order2(data, less, o1.x, o2.x, o2.swaps)
    IN [x |-> o3.y, swaps |-> o3.swaps]

medianAdjacent(data, less, a, swaps) == median(data, less, a - 1, a, a + 1, swaps)

\* choosePivot: the pivot's index and the hint on the order of the range
choosePivot(data, less, a, b) ==
    LET l == b - a
        i == a + (l \div 4) * 1
        j == a + (l \div 4) * 2
        k == a + (l \div 4) * 3
        ninther == l >= shortestNinther
        mi == IF ninther THEN medianAdjacent(data, less, i, 0) ELSE [x |-> i, swaps |-> 0]
        mj == IF ninther THEN medianAdjacent(data, less, j, mi.swaps)
              ELSE [x |-> j, swaps |-> 0]
        mk == IF ninther THEN medianAdjacent(data, less, k, mj.swaps)
              ELSE [x |-> k, swaps |-> 0]
        m == IF l >= 8 THEN median(data, less, mi.x, mj.x, mk.x, mk.swaps)
             ELSE [x |-> j, swaps |-> 0]
    IN [pivot |-> m.x,
        hint |-> CASE m.swaps = 0 -> "increasing"
                   [] m.swaps = maxSwaps -> "decreasing"
                   [] OTHER -> "unknown"]

\* The loop of reverseRange: for i < j { Swap(i, j); i++; j-- }
RECURSIVE reverseRangeLoop(_, _, _)
reverseRangeLoop(data, i, j) ==
    IF i < j THEN reverseRangeLoop(Swap(data, i, j), i + 1, j - 1) ELSE data

reverseRange(data, a, b) == reverseRangeLoop(data, a, b - 1)

\* partialInsertionSort: for i < b && !data.Less(i, i-1) { i++ }
RECURSIVE skipOrdered(_, _, _, _)
skipOrdered(data, less, i, b) ==
    IF i < b /\ ~DataLess(data, less, i, i - 1)
    THEN skipOrdered(data, less, i + 1, b)
    ELSE i

\* partialInsertionSort: for j := i - 1; j >= 1; j-- { if !Less(j, j-1) break; Swap(j, j-1) }
RECURSIVE shiftSmaller(_, _, _)
shiftSmaller(data, less, j) ==
    IF j >= 1 /\ DataLess(data, less, j, j - 1)
    THEN shiftSmaller(Swap(data, j, j - 1), less, j - 1)
    ELSE data

\* partialInsertionSort: for j := i + 1; j < b; j++ { if !Less(j, j-1) break; Swap(j, j-1) }
RECURSIVE shiftGreater(_, _, _, _)
shiftGreater(data, less, j, b) ==
    IF j < b /\ DataLess(data, less, j, j - 1)
    THEN shiftGreater(Swap(data, j, j - 1), less, j + 1, b)
    ELSE data

\* The loop of partialInsertionSort: for j := 0; j < maxSteps; j++
RECURSIVE partialInsertionSortLoop(_, _, _, _, _, _)
partialInsertionSortLoop(data, less, a, b, i, step) ==
    LET at == skipOrdered(data, less, i, b)
        swapped == Swap(data, at, at - 1)
        smaller == IF at - a >= 2 THEN shiftSmaller(swapped, less, at - 1) ELSE swapped
        greater == IF b - at >= 2 THEN shiftGreater(smaller, less, at + 1, b) ELSE smaller
    IN IF step >= maxSteps THEN [data |-> data, sorted |-> FALSE]
       ELSE IF at = b THEN [data |-> data, sorted |-> TRUE]
       ELSE IF b - a < shortestShifting THEN [data |-> data, sorted |-> FALSE]
       ELSE partialInsertionSortLoop(greater, less, a, b, at, step + 1)

\* partialInsertionSort: the range, and whether it is sorted at the end
partialInsertionSort(data, less, a, b) ==
    partialInsertionSortLoop(data, less, a, b, a + 1, 0)

\* bits.Len(n)
RECURSIVE bitsLen(_)
bitsLen(n) == IF n = 0 THEN 0 ELSE 1 + bitsLen(n \div 2)

\* A uint64 as its bits, least significant first; the words held are lengths.
Word(n) == [i \in 0..63 |-> IF i < 30 THEN (n \div Pow2(i)) % 2 ELSE 0]
Shl(x, k) == [i \in 0..63 |-> IF i >= k THEN x[i - k] ELSE 0]
Shr(x, k) == [i \in 0..63 |-> IF i + k <= 63 THEN x[i + k] ELSE 0]
Xor(x, y) == [i \in 0..63 |-> (x[i] + y[i]) % 2]
\* x & (1<<n - 1)
RECURSIVE LowBits(_, _)
LowBits(x, n) == IF n = 0 THEN 0 ELSE LowBits(x, n - 1) + x[n - 1] * Pow2(n - 1)

\* xorshift.Next: r ^= r << 13; r ^= r >> 7; r ^= r << 17
xorshiftNext(r) ==
    LET r1 == Xor(r, Shl(r, 13))
        r2 == Xor(r1, Shr(r1, 7))
    IN Xor(r2, Shl(r2, 17))

\* The loop of breakPatterns: for i := 0; i < 3; i++
RECURSIVE breakPatternsLoop(_, _, _, _, _, _)
breakPatternsLoop(data, a, length, idx, random, i) ==
    LET next == xorshiftNext(random)
        masked == LowBits(next, bitsLen(length))
        otherIdx == IF masked >= length THEN masked - length ELSE masked
    IN IF i >= 3 THEN data
       ELSE breakPatternsLoop(Swap(data, idx - 1 + i, a + otherIdx), a, length, idx, next, i + 1)

breakPatterns(data, a, b) ==
    LET length == b - a
    IN IF length >= 8
       THEN breakPatternsLoop(data, a, length, a + (length \div 4) * 2 - 1, Word(length), 0)
       ELSE data

\* partition: for i <= j && data.Less(i, a) { i++ }
RECURSIVE skipLess(_, _, _, _, _)
skipLess(data, less, i, j, a) ==
    IF i <= j /\ DataLess(data, less, i, a) THEN skipLess(data, less, i + 1, j, a)
    ELSE i

\* partition: for i <= j && !data.Less(j, a) { j-- }
RECURSIVE skipNotLess(_, _, _, _, _)
skipNotLess(data, less, i, j, a) ==
    IF i <= j /\ ~DataLess(data, less, j, a) THEN skipNotLess(data, less, i, j - 1, a)
    ELSE j

\* The closing loop of partition, and the swap of the pivot into its place.
RECURSIVE partitionLoop(_, _, _, _, _)
partitionLoop(data, less, i, j, a) ==
    LET i2 == skipLess(data, less, i, j, a)
        j2 == skipNotLess(data, less, i2, j, a)
    IN IF i2 > j2 THEN [data |-> Swap(data, j2, a), mid |-> j2]
       ELSE partitionLoop(Swap(data, i2, j2), less, i2 + 1, j2 - 1, a)

\* partition: the range, the pivot's new index, and whether the range was
\* partitioned already
partition(data, less, a, b, pivot) ==
    LET moved == Swap(data, a, pivot)
        i == skipLess(moved, less, a + 1, b - 1, a)
        j == skipNotLess(moved, less, i, b - 1, a)
        rest == partitionLoop(Swap(moved, i, j), less, i + 1, j - 1, a)
    IN IF i > j THEN [data |-> Swap(moved, j, a), mid |-> j, alreadyPartitioned |-> TRUE]
       ELSE [data |-> rest.data, mid |-> rest.mid, alreadyPartitioned |-> FALSE]

\* partitionEqual: for i <= j && !data.Less(a, i) { i++ }
RECURSIVE skipNotGreater(_, _, _, _, _)
skipNotGreater(data, less, i, j, a) ==
    IF i <= j /\ ~DataLess(data, less, a, i)
    THEN skipNotGreater(data, less, i + 1, j, a)
    ELSE i

\* partitionEqual: for i <= j && data.Less(a, j) { j-- }
RECURSIVE skipGreater(_, _, _, _, _)
skipGreater(data, less, i, j, a) ==
    IF i <= j /\ DataLess(data, less, a, j) THEN skipGreater(data, less, i, j - 1, a)
    ELSE j

\* The loop of partitionEqual.
RECURSIVE partitionEqualLoop(_, _, _, _, _)
partitionEqualLoop(data, less, i, j, a) ==
    LET i2 == skipNotGreater(data, less, i, j, a)
        j2 == skipGreater(data, less, i2, j, a)
    IN IF i2 > j2 THEN [data |-> data, mid |-> i2]
       ELSE partitionEqualLoop(Swap(data, i2, j2), less, i2 + 1, j2 - 1, a)

\* partitionEqual: the elements equal to the pivot, then those greater
partitionEqual(data, less, a, b, pivot) ==
    partitionEqualLoop(Swap(data, a, pivot), less, a + 1, b - 1, a)

\* pdqsort(data, a, b, limit) starts its loop with both flags set.  One turn
\* of the loop is pdqsortLoop and the operators it hands over to, one for
\* each of the loop's steps; each ends in the next turn or in the return.
RECURSIVE pdqsort(_, _, _, _, _)
RECURSIVE pdqsortLoop(_, _, _, _, _, _, _)
RECURSIVE pdqsortChoose(_, _, _, _, _, _, _)
RECURSIVE pdqsortPivot(_, _, _, _, _, _, _, _)
RECURSIVE pdqsortPresorted(_, _, _, _, _, _, _, _, _)
RECURSIVE pdqsortPartial(_, _, _, _, _, _, _, _)
RECURSIVE pdqsortPartition(_, _, _, _, _, _, _, _)
RECURSIVE pdqsortEqual(_, _, _, _, _, _)
RECURSIVE pdqsortRecurse(_, _, _, _, _)

\* if length <= maxInsertion { insertionSort(data, a, b); return }
\* if limit == 0 { heapSort(data, a, b); return }
\* if !wasBalanced { breakPatterns(data, a, b); limit-- }
pdqsortLoop(data, less, a, b, limit, wasBalanced, wasPartitioned) ==
    IF b - a <= maxInsertion THEN insertionSort(data, less, a, b)
    ELSE IF limit = 0 THEN heapSort(data, less, a, b)
    ELSE IF ~wasBalanced
         THEN pdqsortChoose(breakPatterns(data, a, b), less, a, b, limit - 1,
                            wasBalanced, wasPartitioned)
    ELSE pdqsortChoose(data, less, a, b, limit, wasBalanced, wasPartitioned)

\* pivot, hint := choosePivot(data, a, b)
pdqsortChoose(data, less, a, b, limit, wasBalanced, wasPartitioned) ==
    pdqsortPivot(data, less, a, b, limit, wasBalanced, wasPartitioned,
                 choosePivot(data, less, a, b))

\* if hint == decreasingHint { reverseRange(data, a, b);
\*     pivot = (b - 1) - (pivot - a); hint = increasingHint }
pdqsortPivot(data, less, a, b, limit, wasBalanced, wasPartitioned, chosen) ==
    IF chosen.hint = "decreasing"
    THEN pdqsortPresorted(reverseRange(data, a, b), less, a, b, limit,
                          wasBalanced, wasPartitioned,
                          (b - 1) - (chosen.pivot - a), "increasing")
    ELSE pdqsortPresorted(data, less, a, b, limit, wasBalanced, wasPartitioned,
                          chosen.pivot, chosen.hint)

\* if wasBalanced && wasPartitioned && hint == increasingHint {
\*     if partialInsertionSort(data, a, b) { return } }
pdqsortPresorted(data, less, a, b, limit, wasBalanced, wasPartitioned, pivot, hint) ==
    IF wasBalanced /\ wasPartitioned /\ hint = "increasing"
    THEN pdqsortPartial(partialInsertionSort(data, less, a, b), less, a, b,
                        limit, wasBalanced, wasPartitioned, pivot)
    ELSE pdqsortPartition(data, less, a, b, limit, wasBalanced, wasPartitioned, pivot)

pdqsortPartial(partial, less, a, b, limit, wasBalanced, wasPartitioned, pivot) ==
    IF partial.sorted THEN partial.data
    ELSE pdqsortPartition(partial.data, less, a, b, limit, wasBalanced,
                          wasPartitioned, pivot)

\* if a > 0 && !data.Less(a-1, pivot) { mid := partitionEqual(data, a, b, pivot) ... }
\* mid, alreadyPartitioned := partition(data, a, b, pivot)
pdqsortPartition(data, less, a, b, limit, wasBalanced, wasPartitioned, pivot) ==
    IF a > 0 /\ ~DataLess(data, less, a - 1, pivot)
    THEN pdqsortEqual(partitionEqual(data, less, a, b, pivot), less, b, limit,
                      wasBalanced, wasPartitioned)
    ELSE pdqsortRecurse(partition(data, less, a, b, pivot), less, a, b, limit)

\* a = mid; continue
pdqsortEqual(eq, less, b, limit, wasBalanced, wasPartitioned) ==
    pdqsortLoop(eq.data, less, eq.mid, b, limit, wasBalanced, wasPartitioned)

\* wasPartitioned = alreadyPartitioned; the shorter side is sorted by a call
\* of pdqsort, the longer one by the next turn of the loop.
pdqsortRecurse(p, less, a, b, limit) ==
    LET leftLen == p.mid - a
        rightLen == b - p.mid
        balanceThreshold == (b - a) \div 8
    IN IF leftLen < rightLen
       THEN pdqsortLoop(pdqsort(p.data, less, a, p.mid, limit), less,
                        p.mid + 1, b, limit, leftLen >= balanceThreshold,
                        p.alreadyPartitioned)
       ELSE pdqsortLoop(pdqsort(p.data, less, p.mid + 1, b, limit), less,
                        a, p.mid, limit, rightLen >= balanceThreshold,
                        p.alreadyPartitioned)

pdqsort(data, less, a, b, limit) ==
    pdqsortLoop(data, less, a, b, limit, TRUE, TRUE)

\* sort.Sort(data), and sort.Sort(sort.Reverse(data)) when rev
Sort(data, kind, rev) ==
    LET n == Len(data)
    IN IF n <= 1 THEN data ELSE pdqsort(data, LessOf(data, kind, rev), 0, n, bitsLen(n))

\* sort.SliceStable(rs, less) on runes: insertion sort of blocks of 20 and,
\* beyond, merges of them; rune order being total, the outcome is the one
\* sorted arrangement, which insertion over the whole slice yields as well.
SliceStable(rs) == insertionSort(rs, LessOf(rs, "runes", FALSE), 0, Len(rs))

\* The reversing loop run over the whole slice instead of its first half.
RECURSIVE ReverseWholeLength(_, _)
ReverseWholeLength(data, i) ==
    IF i < Len(data)
    THEN ReverseWholeLength(Swap(data, i, Len(data) - 1 - i), i + 1)
    ELSE data

\* for i := 0; i < n/2; i++ { items[i], items[n-1-i] = items[n-1-i], items[i] }
RECURSIVE ReverseInPlace(_, _)
ReverseInPlace(data, i) ==
    IF i < Len(data) \div 2
    THEN ReverseInPlace(Swap(data, i, Len(data) - 1 - i), i + 1)
    ELSE data

(***************************************************************************)
(* The iteration protocol.  The caller's fn is modelled by stop: fn returns *)
(* false on its stop-th call and true on every other call (stop = 0: fn    *)
(* always returns true).  The order in which reflect's MapKeys lists a     *)
(* map's keys is unspecified: it is the permutation perm.                  *)
(***************************************************************************)
\* The nil *Value passed as fn's value argument for slices and texts.
NoValue == Value(Raw("", "nil *Value"), FALSE)

\* What fn returns on the call with index idx.
FnReturns(idx, stop) == idx + 1 /= stop

\* The loop without its return: fn's result is ignored.
RangeLoopIgnoringFn(entries, idx, stop) == entries

\* for idx, e := range entries { if !fn(idx, count, e.key, e.value) { return } }
\* The calls of fn that the loop makes, in order.
RECURSIVE RangeLoop(_, _, _)
RangeLoop(entries, idx, stop) ==
    IF idx >= Len(entries) THEN <<>>
    ELSE <<entries[idx + 1]>>
         \o (IF ~FnReturns(idx, stop) THEN <<>> ELSE RangeLoop(entries, idx + 1, stop))

\* Whether the loop left IterateOrder through its return statement.
ReturnedEarly(entries, stop) == stop >= 1 /\ stop <= Len(entries)

\* reflect.Value.MapKeys
MapKeys(m, perm) == [i \in 1..Len(m.items) |-> m.items[perm[i]]]

\* The snapshot of a slice's elements: one *Value per element, in order.
ItemsOf(r) == [i \in 1..Len(r.items) |-> Value(r.items[i], FALSE)]

\* The order in which a map's keys are visited.
KeysInOrder(r, reverse, sorted, perm) ==
    LET keys == MapKeys(r, perm)
    IN IF sorted THEN Sort(keys, "keys", reverse) ELSE keys

\* The order in which a slice's items are visited.
ItemsInOrder(r, reverse, sorted) ==
    LET items == ItemsOf(r)
    IN IF sorted THEN Sort(items, "values", reverse)
       ELSE IF reverse THEN ReverseInPlace(items, 0) ELSE items

\* The order in which a text's code points are visited.
RunesInOrder(r, reverse, sorted) ==
    LET rs == r.s
        st == IF sorted THEN SliceStable(rs) ELSE rs
    IN IF reverse THEN ReverseInPlace(st, 0) ELSE st

\* The map branch of IterateOrder, from the loop over the keys on.
IterateKeys(r, stop, keys) ==
    LET keyLen == Len(keys)
        entries == [i \in 1..keyLen |->
                       [idx |-> i - 1, count |-> keyLen,
                        key |-> Value(keys[i], FALSE),
                        value |-> Value(MapIndex(r, keys[i]), FALSE)]]
    IN [visits |-> RangeLoop(entries, 0, stop),
        empties |-> IF ~ReturnedEarly(entries, stop) /\ keyLen = 0 THEN 1 ELSE 0]

\* The map branch of IterateOrder.
IterateMap(r, stop, reverse, sorted, perm) ==
    IterateKeys(r, stop, KeysInOrder(r, reverse, sorted, perm))

\* The array and slice branch of IterateOrder, from the loop over the items on.
IterateItems(r, stop, items) ==
    LET itemCount == Len(r.items)
        entries == [i \in 1..Len(items) |->
                       [idx |-> i - 1, count |-> itemCount,
                        key |-> items[i], value |-> NoValue]]
    IN IF Len(items) > 0
       THEN [visits |-> RangeLoop(entries, 0, stop), empties |-> 0]
       ELSE [visits |-> <<>>, empties |-> 1]

\* The array and slice branch of IterateOrder.
IterateSlice(r, stop, reverse, sorted) ==
    IterateItems(r, stop, ItemsInOrder(r, reverse, sorted))

\* The string branch of IterateOrder.
IterateText(r, stop, reverse, sorted) ==
    LET charCount == Len(r.s)
        rs == IF charCount > 0 THEN RunesInOrder(r, reverse, sorted) ELSE r.s
        entries == [i \in 1..charCount |->
                       [idx |-> i - 1, count |-> charCount,
                        key |-> Value(TextV(<<rs[i]>>), FALSE),
                        value |-> NoValue]]
    IN IF charCount > 0
       THEN [visits |-> RangeLoop(entries, 0, stop), empties |-> 0]
       ELSE [visits |-> <<>>, empties |-> 1]

\* The default branch returning like the others, before empty is called.
IterateOtherReturning(r) == [visits |-> <<>>, empties |-> 0]

\* The default branch of IterateOrder, and the call of empty that ends it.
IterateOther(r) == [visits |-> <<>>, empties |-> 1]

\* IterateOrder: the calls of fn, in order, and the number of calls of empty.
IterateOrder(v, stop, reverse, sorted, perm) ==
    LET r == getResolvedValue(v)
    IN CASE r.k = "map" -> IterateMap(r, stop, reverse, sorted, perm)
         [] r.k \in {"array", "slice"} -> IterateSlice(r, stop, reverse, sorted)
         [] r.k = "string" -> IterateText(r, stop, reverse, sorted)
         [] OTHER -> IterateOther(r)

\* Iterate(fn, empty) is IterateOrder(fn, empty, false, false).
Iterate(v, stop, perm) == IterateOrder(v, stop, FALSE, FALSE, perm)

\* Every kind predicate and coercion of a Value.
Observe(v) ==
    [IsString |-> IsString(v), IsBool |-> IsBool(v), IsFloat |-> IsFloat(v),
     IsInteger |-> IsInteger(v), IsNumber |-> IsNumber(v), IsTime |-> IsTime(v),
     IsNil |-> IsNil(v), String |-> String(v), Integer |-> Integer(v),
     Float |-> Float(v), Bool |-> Bool(v), Time |-> Time(v)]

(***************************************************************************)
(* The values the model draws from.                                        *)
(***************************************************************************)
SeqsOver(S) == UNION {[1..m -> S] : m \in 0..MaxLen}
Perms(n) == {p \in [1..n -> 1..n] : \A i, j \in 1..n : p[i] = p[j] => i = j}

Bools == {BoolV(TRUE), BoolV(FALSE)}
Ints == {IntV(n) : n \in MinInt..MaxInt}
Int64s == {Int64V(0), Int64V(1)}
Uints == {UintV(0), UintV(1), UintV(MaxUint)}
Floats == {FloatV(-10), FloatV(0), FloatV(5), FloatV(11), NaNV}
Times == {TimeV(0), TimeV(1)}
Pointers == {NilPtrV("int"), PtrV(1, IntV(1)), PtrV(2, IntV(1)), PtrV(3, IntV(0)),
             PtrV(4, TimeV(0)), PtrV(5, PtrV(1, IntV(1)))}

\* Elements of a []interface{} and keys of a map[interface{}]int, as Index
\* and MapKeys hand them out: of Kind Interface, holding an int, a string, a
\* float64 or nil.
Elements ==
    {IfaceV(IntV(1)), IfaceV(IntV(2)), IfaceV(TextV(<<97>>)), IfaceV(FloatV(5)),
     IfaceV(Invalid)}

\* The operands of the binary operations.
Operands ==
    {Invalid, RecordV, ComplexV} \cup Bools \cup Ints \cup Int64s \cup Uints
    \cup Floats \cup Times \cup Pointers
    \cup {TextV(<<>>), TextV(<<97>>), TextV(<<49>>), TextV(<<97, 98>>)}
    \cup Elements

\* The operands of the comparator.
SortOperands ==
    Ints \cup Floats \cup {UintV(1), UintV(MaxUint)}
    \cup {TextV(<<>>), TextV(<<97>>), TextV(<<49>>)}

Texts == {TextV(s) : s \in SeqsOver({97, 98, 49})}
Slices ==
    {SliceV("int", s) : s \in SeqsOver({IntV(1), IntV(2), IntV(3)})}
    \cup {SliceV("string", s) :
             s \in SeqsOver({TextV(<<97>>), TextV(<<98>>), TextV(<<97, 98>>)})}
    \cup {SliceV("float64", s) : s \in SeqsOver({FloatV(5), FloatV(-10), NaNV})}
    \cup {SliceV("*int", s) :
             s \in SeqsOver({NilPtrV("int"), PtrV(1, IntV(1)), PtrV(2, IntV(2))})}
    \cup {SliceV("uint", s) : s \in SeqsOver({UintV(1), UintV(MaxUint)})}
    \cup {SliceV("interface {}", s) :
             s \in SeqsOver({IfaceV(IntV(2)), IfaceV(TextV(<<97>>))})}
    \cup {SliceCapV("int", <<IntV(1)>>, <<IntV(0), IntV(0)>>),
          SliceCapV("int", <<>>, <<IntV(2)>>),
          SliceCapV("string", <<TextV(<<98>>), TextV(<<97>>)>>, <<TextV(<<>>)>>)}

\* A slice longer than maxInsertion, holding a NaN.
LongSlices ==
    {SliceV("float64",
            <<FloatV(140), FloatV(130), FloatV(120), FloatV(10), FloatV(110), FloatV(100),
              FloatV(20), FloatV(90), NaNV, FloatV(80), FloatV(70), FloatV(60), FloatV(50),
              FloatV(40), FloatV(30)>>)}

Arrays ==
    {ArrayV("int", <<>>), ArrayV("int", <<IntV(2), IntV(1)>>),
     ArrayV("int", <<IntV(3), IntV(1), IntV(2)>>)}

\* Maps hold their keys once each: the key lists are the increasing ones.
Increasing(s) == \A i, j \in 1..Len(s) : i < j => s[i] < s[j]
KeyLists == {s \in SeqsOver(1..MaxLen) : Increasing(s)}
Maps ==
    {MapV("int", [i \in 1..Len(s) |-> IntV(s[i])], [i \in 1..Len(s) |-> IntV(s[i])]) :
        s \in KeyLists}
    \cup {MapV("int64", [i \in 1..Len(s) |-> Int64V(s[i])], [i \in 1..Len(s) |-> IntV(0)]) :
             s \in {<<>>, <<1>>}}
    \cup {MapV("string", <<>>, <<>>),
          MapV("string", <<TextV(<<97>>)>>, <<IntV(1)>>),
          MapV("string", <<TextV(<<97>>), TextV(<<98>>)>>, <<IntV(1), IntV(2)>>),
          MapV("float64", <<FloatV(5)>>, <<IntV(1)>>),
          MapV("bool", <<BoolV(TRUE)>>, <<IntV(1)>>),
          MapV("*int", <<PtrV(1, IntV(1))>>, <<IntV(1)>>),
          MapV("interface {}", <<>>, <<>>),
          MapV("interface {}", <<IfaceV(IntV(1)), IfaceV(TextV(<<97>>)), IfaceV(FloatV(5))>>,
               <<IntV(1), IntV(2), IntV(3)>>)}

Receivers ==
    Operands \cup Texts \cup Slices \cup LongSlices \cup Arrays \cup Maps
    \cup {PtrV(6, SliceV("int", <<IntV(3), IntV(1), IntV(2)>>)),
          PtrV(7, TextV(<<98, 97>>)),
          PtrV(8, MapV("int", <<IntV(1), IntV(2)>>, <<IntV(1), IntV(2)>>)),
          PtrV(9, SliceV("int", <<>>)),
          PtrV(10, ArrayV("int", <<IntV(2), IntV(1)>>))}

KeyOrders(x) ==
    LET r == getResolvedValue(Value(x, FALSE))
    IN Perms(IF r.k = "map" THEN Len(r.items) ELSE 0)

(***************************************************************************)
(* The state machine: a Value, and the calls made on it.                   *)
(***************************************************************************)
Call(op) == [op |-> op, reverse |-> FALSE, sorted |-> FALSE, stop |-> 0,
             i |-> 0, j |-> 0, perm |-> <<>>]

Init ==
    /\ val \in Receivers
    /\ safe \in BOOLEAN
    /\ other = Invalid
    /\ third = Invalid
    /\ call = Call("AsValue")
    /\ ret = FALSE
    /\ visits = <<>>
    /\ empties = 0

\* IterateOrder ordering the receiver's own elements instead of a snapshot.
IterateOrderCallInPlace(reverse, sorted, stop, perm) ==
    LET out == IterateOrder(Value(val, safe), stop, reverse, sorted, perm)
        ordered == ItemsInOrder(val, reverse, sorted)
    IN /\ call.op = "AsValue"
       /\ call' = [Call("IterateOrder") EXCEPT !.reverse = reverse, !.sorted = sorted,
                                               !.stop = stop, !.perm = perm]
       /\ visits' = out.visits
       /\ empties' = out.empties
       /\ ret' = FALSE
       /\ other' = Invalid
       /\ third' = Invalid
       /\ val' = IF val.k = "slice"
                 THEN [val EXCEPT !.items = [i \in 1..Len(ordered) |-> ordered[i].val]]
                 ELSE val
       /\ UNCHANGED safe

IterateOrderCall(reverse, sorted, stop, perm) ==
    LET out == IterateOrder(Value(val, safe), stop, reverse, sorted, perm)
    IN /\ call.op = "AsValue"
       /\ call' = [Call("IterateOrder") EXCEPT !.reverse = reverse, !.sorted = sorted,
                                               !.stop = stop, !.perm = perm]
       /\ visits' = out.visits
       /\ empties' = out.empties
       /\ ret' = FALSE
       /\ other' = Invalid
       /\ third' = Invalid
       /\ UNCHANGED <<val, safe>>

IterateCall(stop, perm) ==
    LET out == Iterate(Value(val, safe), stop, perm)
    IN /\ call.op = "AsValue"
       /\ call' = [Call("Iterate") EXCEPT !.stop = stop, !.perm = perm]
       /\ visits' = out.visits
       /\ empties' = out.empties
       /\ ret' = FALSE
       /\ other' = Invalid
       /\ third' = Invalid
       /\ UNCHANGED <<val, safe>>

NegateCall ==
    /\ call.op = "AsValue"
    /\ call' = Call("Negate")
    /\ ret' = Negate(Value(val, safe))
    /\ visits' = <<>>
    /\ empties' = 0
    /\ other' = Invalid
    /\ third' = Invalid
    /\ UNCHANGED <<val, safe>>

IndexCall(i) ==
    /\ call.op = "AsValue"
    /\ call' = [Call("Index") EXCEPT !.i = i]
    /\ ret' = Index(Value(val, safe), i)
    /\ visits' = <<>>
    /\ empties' = 0
    /\ other' = Invalid
    /\ third' = Invalid
    /\ UNCHANGED <<val, safe>>

SliceCall(i, j, runeCap) ==
    /\ call.op = "AsValue"
    /\ call' = [Call("Slice") EXCEPT !.i = i, !.j = j]
    /\ ret' = Slice(Value(val, safe), i, j, runeCap)
    /\ visits' = <<>>
    /\ empties' = 0
    /\ other' = Invalid
    /\ third' = Invalid
    /\ UNCHANGED <<val, safe>>

ContainsCall(o) ==
    /\ call.op = "AsValue"
    /\ call' = Call("Contains")
    /\ ret' = Contains(Value(val, safe), AsValue(o))
    /\ visits' = <<>>
    /\ empties' = 0
    /\ other' = o
    /\ third' = Invalid
    /\ UNCHANGED <<val, safe>>

EqualValueToCall(o) ==
    /\ call.op = "AsValue"
    /\ call' = Call("EqualValueTo")
    /\ ret' = EqualValueTo(Value(val, safe), AsValue(o))
    /\ visits' = <<>>
    /\ empties' = 0
    /\ other' = o
    /\ third' = Invalid
    /\ UNCHANGED <<val, safe>>

\* Less of sortedKeys and of valuesList on the three operands val, b, c.
LessCall(b, c) ==
    /\ call.op = "AsValue"
    /\ val \in SortOperands
    /\ call' = Call("Less")
    /\ ret' = [sk |-> [p \in (0..2) \X (0..2) |->
                          sortedKeysLess(<<val, b, c>>, p[1], p[2])],
               vl |-> [p \in (0..2) \X (0..2) |->
                          valuesListLess(<<Value(val, safe), AsValue(b), AsValue(c)>>,
                                         p[1], p[2])]]
    /\ visits' = <<>>
    /\ empties' = 0
    /\ other' = b
    /\ third' = c
    /\ UNCHANGED <<val, safe>>

\* The predicates and coercions of the Value, and of a Value made of a
\* pointer to the same raw value.
ResolveCall ==
    /\ call.op = "AsValue"
    /\ val.k \notin {"invalid", "ptr"}
    /\ call' = Call("Resolve")
    /\ ret' = [direct |-> Observe(Value(val, safe)),
               viaRef |-> Observe(Value(PtrV(1, val), safe))]
    /\ visits' = <<>>
    /\ empties' = 0
    /\ other' = PtrV(1, val)
    /\ third' = Invalid
    /\ UNCHANGED <<val, safe>>

\* The caller is done with the call's result; the Value lives on.
Done ==
    /\ call.op /= "AsValue"
    /\ call' = Call("AsValue")
    /\ ret' = FALSE
    /\ visits' = <<>>
    /\ empties' = 0
    /\ other' = Invalid
    /\ third' = Invalid
    /\ UNCHANGED <<val, safe>>

Next ==
    \/ \E reverse \in BOOLEAN, sorted \in BOOLEAN, stop \in 0..MaxLen,
          perm \in KeyOrders(val) : IterateOrderCall(reverse, sorted, stop, perm)
    \/ \E stop \in 0..MaxLen, perm \in KeyOrders(val) : IterateCall(stop, perm)
    \/ NegateCall
    \/ \E i \in -1..MaxLen : IndexCall(i)
    \/ \E i \in -1..MaxLen, j \in -1..(MaxLen + 1),
          runeCap \in RuneCaps(ValueLen(Value(val, safe))) : SliceCall(i, j, runeCap)
    \/ \E o \in Operands : ContainsCall(o)
    \/ \E o \in Operands : EqualValueToCall(o)
    \/ \E b \in SortOperands, c \in SortOperands : LessCall(b, c)
    \/ ResolveCall
    \/ Done

Spec == Init /\ [][Next]_vars

(***************************************************************************)
(* The properties.                                                         *)
(***************************************************************************)
\* The resolved value of the receiver, and what a call iterates over.
Recv == getResolvedValue(Value(val, safe))
Iterating == call.op \in {"Iterate", "IterateOrder"}
Iterable == Recv.k \in {"map", "slice", "array", "string"}
ElemCount == IF Recv.k = "string" THEN Len(Recv.s) ELSE Len(Recv.items)
\* The receiver's elements in their original order, as fn receives them
\* (for a map: its keys).
OriginalElems ==
    IF Recv.k = "string" THEN [i \in 1..Len(Recv.s) |-> Value(TextV(<<Recv.s[i]>>), FALSE)]
    ELSE [i \in 1..Len(Recv.items) |-> Value(Recv.items[i], FALSE)]
VisitedKeys == [i \in 1..Len(visits) |-> visits[i].key]
Occurrences(seq, x) == Cardinality({i \in 1..Len(seq) : seq[i] = x})
IsPermutation(a, b) ==
    /\ Len(a) = Len(b)
    /\ \A i \in 1..Len(a) : Occurrences(a, a[i]) = Occurrences(b, a[i])

\* C1: iterating an empty mapping, sequence or text, or a value of a kind that
\* is not iterable, calls onEmpty exactly once and never calls visit.
C1_EmptyCallsOnEmptyOnce ==
    (Iterating /\ (~Iterable \/ ElemCount = 0)) => (empties = 1 /\ visits = <<>>)

C1_Witness ==
    /\ call.op = "IterateOrder" /\ call.sorted /\ call.reverse
    /\ val.k = "ptr" /\ Recv.k = "invalid"
    /\ empties = 1

\* C2: when visit returns false on its k-th call (1 <= k <= n), it has been
\* called exactly k times and onEmpty is never called.
C2_EarlyTermination ==
    (Iterating /\ Iterable /\ call.stop >= 1 /\ call.stop <= ElemCount)
        => (Len(visits) = call.stop /\ empties = 0)

C2_Witness ==
    /\ call.op = "IterateOrder" /\ call.stop = 1
    /\ Recv.k = "slice" /\ ElemCount = 3
    /\ Len(visits) = 1 /\ empties = 0

\* C3: without sorting, a sequence or text of n >= 1 elements is visited n
\* times with idx = 0..n-1 in order, count = n and no secondary value; call
\* k carries element k, or element n-1-k when reversed; onEmpty is not called.
C3_UnsortedOrder ==
    (Iterating /\ ~call.sorted /\ call.stop = 0
     /\ Recv.k \in {"slice", "array", "string"} /\ ElemCount >= 1)
        => /\ Len(visits) = ElemCount
           /\ empties = 0
           /\ \A k \in 0..(ElemCount - 1) :
                 /\ visits[k + 1].idx = k
                 /\ visits[k + 1].count = ElemCount
                 /\ visits[k + 1].value = NoValue
                 /\ visits[k + 1].key =
                       OriginalElems[IF call.reverse THEN ElemCount - k ELSE k + 1]

C3_Witness ==
    /\ call.op = "IterateOrder" /\ ~call.sorted /\ call.reverse /\ call.stop = 0
    /\ val = TextV(<<97, 98, 49>>)
    /\ VisitedKeys = <<AsValue(TextV(<<49>>)), AsValue(TextV(<<98>>)), AsValue(TextV(<<97>>))>>

\* C4: with sorted set, a sequence or mapping is visited as a permutation of
\* its elements (keys) in which no element is less than the one before it
\* under the shared comparator, or, when reversed, greater than the one
\* before it; [3,1,2] reversed is visited 3, 2, 1 and {"b":2, "a":1} as a, b.
C4_SortedOrder ==
    (Iterating /\ call.sorted /\ Recv.k \in {"slice", "array", "map"})
        => /\ call.stop = 0 => IsPermutation(VisitedKeys, OriginalElems)
           /\ \A k \in 1..(Len(visits) - 1) :
                 IF call.reverse
                 THEN ~valuesListLess(VisitedKeys, k - 1, k)
                 ELSE ~valuesListLess(VisitedKeys, k, k - 1)
           /\ (call.stop = 0 /\ call.reverse
               /\ Recv = SliceV("int", <<IntV(3), IntV(1), IntV(2)>>))
                 => VisitedKeys = <<AsValue(IntV(3)), AsValue(IntV(2)), AsValue(IntV(1))>>
           /\ (call.stop = 0 /\ ~call.reverse
               /\ Recv = MapV("string", <<TextV(<<97>>), TextV(<<98>>)>>, <<IntV(1), IntV(2)>>))
                 => /\ VisitedKeys = <<AsValue(TextV(<<97>>)), AsValue(TextV(<<98>>))>>
                    /\ visits[1].value = AsValue(IntV(1))
                    /\ visits[2].value = AsValue(IntV(2))

\* less, a relation on three operands, is irreflexive, transitive and acyclic.
StrictOrder(less) ==
    /\ \A i \in 0..2 : ~less[<<i, i>>]
    /\ \A i, j, k \in 0..2 : (less[<<i, j>>] /\ less[<<j, k>>]) => less[<<i, k>>]
    /\ \A i, j, k \in 0..2 : ~(less[<<i, j>>] /\ less[<<j, k>>] /\ less[<<k, i>>])

\* C5: the comparator of sortedKeys and of valuesList is irreflexive and
\* transitive and has no cycle, over operands of any mix of kinds.
C5_ComparatorIsStrictOrder ==
    call.op = "Less" => (StrictOrder(ret.sk) /\ StrictOrder(ret.vl))

\* C6: Negate is the complement of truthiness: v.Negate().IsTrue() is the
\* negation of v.IsTrue(), whatever the kind of v.
C6_NegateIsComplement ==
    call.op = "Negate" => (IsTrue(ret) = ~IsTrue(Value(val, safe)))

C6_Witness ==
    /\ call.op = "Negate"
    /\ val = FloatV(0)
    /\ ret = AsValue(FloatV(11))

\* C7: EqualValueTo is false whenever IsNil holds of either operand.
C7_NilEqualsNothing ==
    (call.op = "EqualValueTo" /\ (IsNil(Value(val, safe)) \/ IsNil(AsValue(other))))
        => ret = FALSE

\* C8: a Value of a pointer to x answers every kind predicate and coercion
\* as a Value of x does, for x a boolean, integer, float, text, timestamp,
\* sequence, mapping or record.
C8_OneLevelResolution ==
    (call.op = "Resolve"
     /\ val.k \in {"bool", "int", "int64", "uint", "float64", "string", "struct",
                   "slice", "array", "map"})
        => ret.viaRef = ret.direct

\* The kind of a key type, and whether the map called on holds the key other.
KindOfType(t) ==
    IF t = "*int" THEN "ptr" ELSE IF t = "interface {}" THEN "interface" ELSE t
KeyPresent == \E i \in 1..Len(Recv.items) : Recv.items[i] = other

\* C9 as claimed: Contains on a mapping never faults; it is false when other
\* is nil or of another kind than the keys; otherwise, for keys of an integer
\* kind or of the text kind, it tells whether the key is present; for keys
\* of any other kind it is false.
C9_ContainsAnyIntegerKind ==
    (call.op = "Contains" /\ Recv.k = "map")
        => /\ ~ret.panics
           /\ ret.result =
                 IF IsNil(AsValue(other)) \/ other.k /= KindOfType(Recv.kt) THEN FALSE
                 ELSE IF other.k \in IntKinds \cup UintKinds \cup {"string"} THEN KeyPresent
                 ELSE FALSE

\* C9 as amended: Contains on a mapping never faults; it is false when other
\* is nil or of another type than the keys; otherwise, when the value other
\* holds is of the type int or the type string (the keys being of that type,
\* or of the type interface{}), it tells whether the key is present; when it
\* is of any other type, the other integer kinds among them, it is false.
C9_ContainsIntOrString ==
    (call.op = "Contains" /\ Recv.k = "map")
        => /\ ~ret.panics
           /\ ret.result =
                 IF IsNil(AsValue(other)) \/ other.t /= Recv.kt THEN FALSE
                 ELSE IF Interface(AsValue(other)).t \in {"int", "string"} THEN KeyPresent
                 ELSE FALSE

C9_Witness ==
    /\ call.op = "Contains"
    /\ Recv.kt = "interface {}" /\ Len(Recv.items) = 3
    /\ other = IfaceV(IntV(1))
    /\ ret = Returned(TRUE)

\* C10: no call changes the Value it is made on: the wrapped value keeps its
\* elements in their order, and the safe marker stays as it was.
C10_ReceiverUnchanged == [][val' = val /\ safe' = safe]_vars

C10_Witness ==
    /\ call.op = "IterateOrder" /\ call.sorted /\ call.reverse /\ call.stop = 0
    /\ val = SliceV("int", <<IntV(1), IntV(3), IntV(2)>>)
    /\ safe
    /\ VisitedKeys = <<AsValue(IntV(3)), AsValue(IntV(2)), AsValue(IntV(1))>>

====
